---- MODULE Spec2Model ----
(***************************************************************************)
(* Model of streamlit_app.py: the "Unduh & Muat Data" run of the GFS       *)
(* dashboard.  One run selects a GFS run (find_latest_run or the manual    *)
(* date), downloads the files missing from the cache (download_missing),   *)
(* loads seven source parameters from the cached GRIB                      *)
(* files, derives wind and the thunderstorm flag, lists the parameters     *)
(* that can be displayed, and renders a map and a point time series.       *)
(*                                                                         *)
(* Units.  Coordinates are integers in tenths of a degree (180 deg =       *)
(* 1800).  Temperatures are in hundredths of a degree (273.15 = 27315).    *)
(* Precipitation is in 1e-4 of the variable's native unit (1.0 mm =        *)
(* 10000; a rate of 1e-4 kg m-2 s-1 = 1).  Wind components are integers    *)
(* in m/s, wind speed is in hundredths of m/s, directions in whole         *)
(* degrees.  CAPE is in J/kg.                                              *)
(*                                                                         *)
(* A dataset is a record                                                   *)
(*   lat, lon    the coordinate axes                                       *)
(*   row, col    for every row/column, the latitude/longitude it had in    *)
(*               the file (the identity of the data it carries)            *)
(*   valid_time  the time labels (forecast step numbers)                   *)
(*   vars        data variable name -> series of values over valid_time    *)
(*               (the value at the sampled cell)                           *)
(*   accum       whether the variable's long_name/name attribute holds     *)
(*               the word "accumulation"                                   *)
(***************************************************************************)
EXTENDS Integers, Sequences, FiniteSets, TLC

VARIABLES
    lat_min, lat_max, lon_min, lon_max,   \* sidebar inputs
    grib,                                 \* filter key -> concatenated dataset of the cached files, or None
    pc,                                   \* position in the main trigger
    ds_t2m, ds_u10, ds_v10, ds_precip, ds_cloud, ds_vis, ds_cape,
    ds_wind, ds_ts,
    available_params,
    param, t_sel,                         \* selectbox and time slider
    map_f,                                \* the field handed to plot_raster
    df,                                   \* the time series data frame
    use_today, manual,                    \* sidebar: automatic search, or the manual run
    probes,                               \* the HEAD requests of find_latest_run, with their answers
    run,                                  \* day, hh: the run selected, or None
    cache,                                \* the files under CACHE_DIR of the selected run
    status,                               \* the list download_missing builds
    gets,                                 \* the GET requests of this call, with their answers
    fi,                                   \* position of download_missing in zip(urls, paths)
    calls                                 \* how many times the trigger was pressed

vars == <<lat_min, lat_max, lon_min, lon_max, grib, pc, ds_t2m, ds_u10, ds_v10,
          ds_precip, ds_cloud, ds_vis, ds_cape, ds_wind, ds_ts,
          available_params, param, t_sel, map_f, df,
          use_today, manual, probes, run, cache, status, gets, fi, calls>>

\* The state of the run selection and of the download.
fetch == <<use_today, manual, probes, run, cache, status, gets, fi, calls>>

\* The region, the opened files and everything loaded and displayed from them.
display == <<lat_min, lat_max, lon_min, lon_max, grib, ds_t2m, ds_u10, ds_v10,
             ds_precip, ds_cloud, ds_vis, ds_cape, ds_wind, ds_ts,
             available_params, param, t_sel, map_f, df>>

----------------------------------------------------------------------------
(* Values *)

None == [none |-> TRUE]

NoVar == "None"

NaN == -999999999

Raised == [raised |-> TRUE]

Range(s) == {s[i] : i \in DOMAIN s}

SeqMax(s) == CHOOSE m \in Range(s) : \A x \in Range(s) : x <= m

Abs(x) == IF x < 0 THEN -x ELSE x

----------------------------------------------------------------------------
(* norm_lon_to_180 *)

\* The positions of s in ascending order of value (a stable sort, as sortby).
Rank(s) ==
    [i \in 1..Len(s) |->
        Cardinality({j \in 1..Len(s) : s[j] < s[i] \/ (s[j] = s[i] /\ j < i)})]

SortIdx(s) ==
    CHOOSE p \in {[k \in 1..Len(s) |-> CHOOSE i \in 1..Len(s) : rank[i] = k - 1] :
                     rank \in {Rank(s)}} : TRUE

Remap180(x) == ((x + 1800) % 3600) - 1800

\* A norm_lon_to_180 that leaves a 0..360 axis as it is.
norm_lon_keep(ds) == ds

\* assign_coords(lon = new_lon).sortby(lon): p is the sorting permutation
SortBy(ds, new_lon, p) ==
    [ds EXCEPT !.lon = [k \in 1..Len(p) |-> new_lon[p[k]]],
               !.col = [k \in 1..Len(p) |-> ds.col[p[k]]]]

\* A norm_lon_to_180 that also remaps an axis whose largest longitude is 180.
norm_lon_from_180(ds) ==
    IF SeqMax(ds.lon) >= 1800
    THEN CHOOSE out \in
             {SortBy(ds, new_lon, p) :
                 <<new_lon, p>> \in
                     {<<nl, SortIdx(nl)>> :
                         nl \in {[i \in 1..Len(ds.lon) |-> Remap180(ds.lon[i])]}}} : TRUE
    ELSE ds

norm_lon_to_180(ds) ==
    IF SeqMax(ds.lon) > 1800
    THEN CHOOSE out \in
             {SortBy(ds, new_lon, p) :
                 <<new_lon, p>> \in
                     {<<nl, SortIdx(nl)>> :
                         nl \in {[i \in 1..Len(ds.lon) |-> Remap180(ds.lon[i])]}}} : TRUE
    ELSE ds

----------------------------------------------------------------------------
(* subset_domain *)

IsDecreasing(s) == Len(s) > 1 /\ \A i \in 1..(Len(s) - 1) : s[i] > s[i + 1]

\* Index.slice_indexer(a, b) of a monotonic index: the first and last
\* position of the label slice [a, b], found by searchsorted.
SliceFrom(s, a) ==
    IF IsDecreasing(s)
    THEN Cardinality({i \in 1..Len(s) : s[i] > a}) + 1
    ELSE Cardinality({i \in 1..Len(s) : s[i] < a}) + 1

SliceTo(s, b) ==
    IF IsDecreasing(s)
    THEN Cardinality({i \in 1..Len(s) : s[i] >= b})
    ELSE Cardinality({i \in 1..Len(s) : s[i] <= b})

to0360(x) == IF x < 0 THEN x + 3600 ELSE x

subset_domain(ds) ==
    LET conv == SeqMax(ds.lon) > 1800 /\ lon_min < 0
        lon_min_in == IF conv THEN to0360(lon_min) ELSE lon_min
        lon_max_in == IF conv THEN to0360(lon_max) ELSE lon_max
        r1 == SliceFrom(ds.lat, lat_max)
        r2 == SliceTo(ds.lat, lat_min)
        c1 == SliceFrom(ds.lon, lon_min_in)
        c2 == SliceTo(ds.lon, lon_max_in)
    IN  [ds EXCEPT !.lat = SubSeq(ds.lat, r1, r2),
                   !.row = SubSeq(ds.row, r1, r2),
                   !.lon = SubSeq(ds.lon, c1, c2),
                   !.col = SubSeq(ds.col, c1, c2)]

----------------------------------------------------------------------------
(* choose_first_var *)

\* A choose_first_var that scans the candidates from the end of the list.
RECURSIVE choose_last_var(_, _)
choose_last_var(data_vars, candidates) ==
    IF candidates = <<>> THEN NoVar
    ELSE IF candidates[Len(candidates)] \in data_vars
         THEN candidates[Len(candidates)]
         ELSE choose_last_var(data_vars, SubSeq(candidates, 1, Len(candidates) - 1))

RECURSIVE choose_first_var(_, _)
choose_first_var(data_vars, candidates) ==
    IF candidates = <<>> THEN NoVar
    ELSE IF Head(candidates) \in data_vars THEN Head(candidates)
         ELSE choose_first_var(data_vars, Tail(candidates))

----------------------------------------------------------------------------
(* load_parameter *)

\* ds_time is what concat_time made of the files opened under filter_keys.
\* ds_time[[varname]], or None when no candidate is a variable of ds_time
keep_var(ds, varname) ==
    IF varname = NoVar THEN None
    ELSE [ds EXCEPT !.vars = [v \in {varname} |-> ds.vars[v]]]

load_parameter(ds_time, var_candidates) ==
    IF ds_time = None THEN None
    ELSE CHOOSE out \in
             {keep_var(ds2, choose_first_var(DOMAIN ds2.vars, var_candidates)) :
                 ds2 \in {subset_domain(ds1) : ds1 \in {norm_lon_to_180(ds_time)}}} : TRUE

----------------------------------------------------------------------------
(* Helpers on the time axis *)

VarName(ds) == CHOOSE v \in DOMAIN ds.vars : TRUE

Field(ds) == ds.vars[VarName(ds)]

\* The positions in P, ascending.
Positions(P) ==
    [k \in 1..Cardinality(P) |->
        CHOOSE i \in P : Cardinality({j \in P : j < i}) = k - 1]

\* ds restricted to the time labels in T (xr.align, join="inner").
SelTimes(ds, T) ==
    LET p == Positions({i \in 1..Len(ds.valid_time) : ds.valid_time[i] \in T})
    IN  [ds EXCEPT !.valid_time = [k \in 1..Len(p) |-> ds.valid_time[p[k]]],
                   !.vars = [v \in DOMAIN ds.vars |->
                                [k \in 1..Len(p) |-> ds.vars[v][p[k]]]]]

CommonTimes(a, b) == Range(a.valid_time) \cap Range(b.valid_time)

\* DataArray.diff("valid_time", label="upper") of a series x over times t.
DiffTimes(t) == [k \in 1..(Len(t) - 1) |-> t[k + 1]]

DiffVals(x) == [k \in 1..(Len(x) - 1) |-> x[k + 1] - x[k]]

\* argmin |valid_time - t|, as a position counted from 1.
NearestIdx(t, sel) ==
    CHOOSE i \in 1..Len(t) :
        /\ \A j \in 1..Len(t) : Abs(t[i] - sel) <= Abs(t[j] - sel)
        /\ \A j \in 1..(i - 1) : Abs(t[j] - sel) > Abs(t[i] - sel)

----------------------------------------------------------------------------
(* compute_wind *)

\* np.hypot, rounded down to hundredths.
Hypot(u, v) ==
    LET s == (u * u + v * v) * 10000
    IN  CHOOSE r \in 0..(100 * (Abs(u) + Abs(v))) : r * r <= s /\ (r + 1) * (r + 1) > s

\* np.degrees(np.arctan2(v, u)) on the axes and the diagonals, where it is
\* a whole number of degrees.
Atan2Deg(v, u) ==
    CASE u > 0 /\ v = 0 -> 0
      [] u > 0 /\ v > 0 -> 45
      [] u = 0 /\ v > 0 -> 90
      [] u < 0 /\ v > 0 -> 135
      [] u < 0 /\ v = 0 -> 180
      [] u < 0 /\ v < 0 -> -135
      [] u = 0 /\ v < 0 -> -90
      [] u > 0 /\ v < 0 -> -45
      [] OTHER -> 0

\* The mathematical angle of the vector, not the bearing the wind comes from.
wind_direction_math(u, v) == (Atan2Deg(v, u)) % 360

wind_direction(u, v) == (270 - Atan2Deg(v, u)) % 360

compute_wind(ds_u, ds_v) ==
    IF ds_u = None \/ ds_v = None THEN None
    ELSE LET T == CommonTimes(ds_u, ds_v)
             a == SelTimes(ds_u, T)
             b == SelTimes(ds_v, T)
             u == Field(a)
             v == Field(b)
             n == Len(u)
         IN  [a EXCEPT !.vars =
                 [w \in {"wind_spd_10m", "wind_dir_10m"} |->
                     IF w = "wind_spd_10m"
                     THEN [i \in 1..n |-> Hypot(u[i], v[i])]
                     ELSE [i \in 1..n |-> wind_direction(u[i], v[i])]]]

----------------------------------------------------------------------------
(* compute_ts_flag *)

IsAccumulated(ds) == ds.accum \/ VarName(ds) \in {"tp", "apcp"}

\* pr.diff("valid_time", label="upper").reindex(valid_time=pr.valid_time)[1:]
\* The reindex pads the first step with NaN and the [1:] drops it again, so
\* what is left is the difference series on the steps after the first.
PrStepTimes(pr) == IF IsAccumulated(pr) THEN DiffTimes(pr.valid_time) ELSE pr.valid_time

PrStepVals(pr) == IF IsAccumulated(pr) THEN DiffVals(Field(pr)) ELSE Field(pr)

\* A compute_ts_flag that emits an all-zero field when an input is missing.
ts_flag_or_zero(ds_cape_in, ds_precip_in) ==
    IF ds_cape_in = None /\ ds_precip_in = None
    THEN [lat |-> <<>>, lon |-> <<>>, row |-> <<>>, col |-> <<>>,
          valid_time |-> <<>>, vars |-> [w \in {"ts_flag"} |-> <<>>], accum |-> FALSE]
    ELSE LET d == IF ds_cape_in = None THEN ds_precip_in ELSE ds_cape_in
         IN  [d EXCEPT !.vars = [w \in {"ts_flag"} |-> [i \in 1..Len(d.valid_time) |-> 0]],
                       !.accum = FALSE]

\* xr.where((cape >= 500) & (pr_step >= 1.0), 1, 0): the operands are joined
\* on the time labels they share; out.assign_coords(valid_time=cape.valid_time)
\* raises ValueError when that is fewer labels than cape has.
compute_ts_flag(ds_cape_in, ds_precip_in) ==
    IF ds_cape_in = None \/ ds_precip_in = None THEN None
    ELSE LET T == CommonTimes(ds_cape_in, ds_precip_in)
             c == SelTimes(ds_cape_in, T)
             p == SelTimes(ds_precip_in, T)
             st == PrStepTimes(p)
             sv == PrStepVals(p)
             pos == Positions({i \in 1..Len(c.valid_time) : c.valid_time[i] \in Range(st)})
             cape == Field(c)
             At(t) == sv[CHOOSE k \in 1..Len(st) : st[k] = t]
             ts == [k \in 1..Len(pos) |->
                      IF cape[pos[k]] >= 500 /\ At(c.valid_time[pos[k]]) >= 10000
                      THEN 1 ELSE 0]
         IN  IF Len(pos) # Len(c.valid_time) THEN Raised
             ELSE [c EXCEPT !.vars = [w \in {"ts_flag"} |-> ts], !.accum = FALSE]

----------------------------------------------------------------------------
(* Unit conversion and the two renderers *)

\* A conversion that takes only values above 100 as Kelvin.
to_celsius_if_kelvin(x) == IF x > 10000 THEN x - 27315 ELSE x

\* field_t - 273.15 (the field is assumed to be in Kelvin)
to_celsius_value(x) == x - 27315

pick_field_at_time(ds, candidates, to_celsius, to_mm_step) ==
    LET var == choose_first_var(DOMAIN ds.vars, candidates)
    IN  IF var = NoVar THEN None
        ELSE LET field == ds.vars[var]
                 idx == NearestIdx(ds.valid_time, t_sel) - 1
                 field_t == IF to_celsius THEN to_celsius_value(field[idx + 1])
                                          ELSE field[idx + 1]
                 prev == IF idx - 1 > 0 THEN idx - 1 ELSE 0
             IN  [lat |-> ds.lat, lon |-> ds.lon,
                  valid_time |-> ds.valid_time[idx + 1],
                  value |-> IF to_mm_step /\ Len(field) > 1
                            THEN IF idx > 0 THEN DiffVals(field)[prev + 1] ELSE NaN
                            ELSE field_t]

\* ds[var].isel(valid_time=idx), for the thunderstorm flag and the wind speed
isel_time(ds, var) ==
    LET idx == NearestIdx(ds.valid_time, t_sel)
    IN  [lat |-> ds.lat, lon |-> ds.lon, valid_time |-> ds.valid_time[idx],
         value |-> ds.vars[var][idx]]

\* pd.DataFrame({"time": ..., "value": ...})
DataFrame(t, x) == [i \in 1..Len(t) |-> [time |-> t[i], value |-> x[i]]]

sample_timeseries(ds, candidates, to_celsius, to_mm_step) ==
    LET var == choose_first_var(DOMAIN ds.vars, candidates)
    IN  IF var = NoVar THEN None
        ELSE LET field == ds.vars[var]
                 series == IF to_celsius
                           THEN [i \in 1..Len(field) |-> to_celsius_value(field[i])]
                           ELSE field
             IN  IF to_mm_step /\ Len(series) > 1
                 THEN DataFrame(DiffTimes(ds.valid_time), DiffVals(series))
                 ELSE DataFrame(ds.valid_time, series)

----------------------------------------------------------------------------
(* The main trigger *)

T2M_CANDIDATES == <<"t2m", "2t", "t">>
U10_CANDIDATES == <<"u10", "10u", "u">>
V10_CANDIDATES == <<"v10", "10v", "v">>
PRECIP_CANDIDATES == <<"tp", "apcp", "prate", "total_precipitation">>
CLOUD_CANDIDATES == <<"tcc", "tcdc", "tcc_total", "tcld">>
VIS_CANDIDATES == <<"vis", "visibility">>
CAPE_CANDIDATES == <<"cape">>

CLOUD_KEYS == <<"atmosphereSingleLayer", "lowCloudLayer", "middleCloudLayer",
                "highCloudLayer", "planetaryBoundaryLayer", "surface">>
CAPE_KEYS == <<"surface", "atmosphereSingleLayer">>

FilterKeys == {"heightAboveGround2", "heightAboveGround10", "surface",
               "atmosphereSingleLayer", "lowCloudLayer", "middleCloudLayer",
               "highCloudLayer", "planetaryBoundaryLayer"}

P_PRECIP == "Curah Hujan (mm/3 jam)"
P_TS == "Thunderstorm (0/1)"
P_T2M == "Temperature (C)"
P_WIND == "Arah & Kecepatan Angin (10 m)"
P_CLOUD == "Awan (%)"
P_VIS == "Visibility"

\* for fk in keys: ds = load_parameter(..., fk, ...); if ds is not None: break
RECURSIVE load_first(_, _)
load_first(keys, candidates) ==
    IF keys = <<>> THEN None
    ELSE LET ds == load_parameter(grib[Head(keys)], candidates)
         IN  IF ds # None THEN ds ELSE load_first(Tail(keys), candidates)

LoadT2m ==
    /\ pc = "load_t2m"
    /\ UNCHANGED fetch
    /\ ds_t2m' = load_parameter(grib["heightAboveGround2"], T2M_CANDIDATES)
    /\ pc' = "load_u10"
    /\ UNCHANGED <<lat_min, lat_max, lon_min, lon_max, grib, ds_u10, ds_v10,
                   ds_precip, ds_cloud, ds_vis, ds_cape, ds_wind, ds_ts,
                   available_params, param, t_sel, map_f, df>>

LoadU10 ==
    /\ pc = "load_u10"
    /\ UNCHANGED fetch
    /\ ds_u10' = load_parameter(grib["heightAboveGround10"], U10_CANDIDATES)
    /\ pc' = "load_v10"
    /\ UNCHANGED <<lat_min, lat_max, lon_min, lon_max, grib, ds_t2m, ds_v10,
                   ds_precip, ds_cloud, ds_vis, ds_cape, ds_wind, ds_ts,
                   available_params, param, t_sel, map_f, df>>

LoadV10 ==
    /\ pc = "load_v10"
    /\ UNCHANGED fetch
    /\ ds_v10' = load_parameter(grib["heightAboveGround10"], V10_CANDIDATES)
    /\ pc' = "load_precip"
    /\ UNCHANGED <<lat_min, lat_max, lon_min, lon_max, grib, ds_t2m, ds_u10,
                   ds_precip, ds_cloud, ds_vis, ds_cape, ds_wind, ds_ts,
                   available_params, param, t_sel, map_f, df>>

LoadPrecip ==
    /\ pc = "load_precip"
    /\ UNCHANGED fetch
    /\ ds_precip' = load_parameter(grib["surface"], PRECIP_CANDIDATES)
    /\ pc' = "load_cloud"
    /\ UNCHANGED <<lat_min, lat_max, lon_min, lon_max, grib, ds_t2m, ds_u10,
                   ds_v10, ds_cloud, ds_vis, ds_cape, ds_wind, ds_ts,
                   available_params, param, t_sel, map_f, df>>

LoadCloud ==
    /\ pc = "load_cloud"
    /\ UNCHANGED fetch
    /\ ds_cloud' = load_first(CLOUD_KEYS, CLOUD_CANDIDATES)
    /\ pc' = "load_vis"
    /\ UNCHANGED <<lat_min, lat_max, lon_min, lon_max, grib, ds_t2m, ds_u10,
                   ds_v10, ds_precip, ds_vis, ds_cape, ds_wind, ds_ts,
                   available_params, param, t_sel, map_f, df>>

LoadVis ==
    /\ pc = "load_vis"
    /\ UNCHANGED fetch
    /\ ds_vis' = load_parameter(grib["surface"], VIS_CANDIDATES)
    /\ pc' = "load_cape"
    /\ UNCHANGED <<lat_min, lat_max, lon_min, lon_max, grib, ds_t2m, ds_u10,
                   ds_v10, ds_precip, ds_cloud, ds_cape, ds_wind, ds_ts,
                   available_params, param, t_sel, map_f, df>>

LoadCape ==
    /\ pc = "load_cape"
    /\ UNCHANGED fetch
    /\ ds_cape' = load_first(CAPE_KEYS, CAPE_CANDIDATES)
    /\ pc' = "compute_wind"
    /\ UNCHANGED <<lat_min, lat_max, lon_min, lon_max, grib, ds_t2m, ds_u10,
                   ds_v10, ds_precip, ds_cloud, ds_vis, ds_wind, ds_ts,
                   available_params, param, t_sel, map_f, df>>

ComputeWind ==
    /\ pc = "compute_wind"
    /\ UNCHANGED fetch
    /\ ds_wind' = compute_wind(ds_u10, ds_v10)
    /\ pc' = "compute_ts"
    /\ UNCHANGED <<lat_min, lat_max, lon_min, lon_max, grib, ds_t2m, ds_u10,
                   ds_v10, ds_precip, ds_cloud, ds_vis, ds_cape, ds_ts,
                   available_params, param, t_sel, map_f, df>>

\* An exception that nothing catches ends the run.
ComputeTsFlag ==
    /\ pc = "compute_ts"
    /\ UNCHANGED fetch
    /\ LET r == compute_ts_flag(ds_cape, ds_precip)
       IN  IF r = Raised
           THEN pc' = "crashed" /\ UNCHANGED ds_ts
           ELSE pc' = "list_params" /\ ds_ts' = r
    /\ UNCHANGED <<lat_min, lat_max, lon_min, lon_max, grib, ds_t2m, ds_u10,
                   ds_v10, ds_precip, ds_cloud, ds_vis, ds_cape, ds_wind,
                   available_params, param, t_sel, map_f, df>>

Listed(ds, name) == IF ds # None THEN <<name>> ELSE <<>>

\* available_params, and st.stop() when it is empty
ListParams ==
    /\ pc = "list_params"
    /\ UNCHANGED fetch
    /\ available_params' =
           Listed(ds_precip, P_PRECIP) \o Listed(ds_ts, P_TS) \o
           Listed(ds_t2m, P_T2M) \o Listed(ds_wind, P_WIND) \o
           Listed(ds_cloud, P_CLOUD) \o Listed(ds_vis, P_VIS)
    /\ pc' = IF available_params' = <<>> THEN "stopped" ELSE "select"
    /\ UNCHANGED <<lat_min, lat_max, lon_min, lon_max, grib, ds_t2m, ds_u10,
                   ds_v10, ds_precip, ds_cloud, ds_vis, ds_cape, ds_wind, ds_ts,
                   param, t_sel, map_f, df>>

\* ds_for_time = next(x for x in [...] if x is not None)
ds_for_time ==
    CASE ds_precip # None -> ds_precip
      [] ds_ts # None -> ds_ts
      [] ds_t2m # None -> ds_t2m
      [] ds_wind # None -> ds_wind
      [] ds_cloud # None -> ds_cloud
      [] OTHER -> ds_vis

\* The user picks a parameter and a valid time.
Select ==
    /\ pc = "select"
    /\ UNCHANGED fetch
    /\ \E p \in Range(available_params) : param' = p
    /\ \E t \in Range(ds_for_time.valid_time) : t_sel' = t
    /\ pc' = "plot_map"
    /\ UNCHANGED <<lat_min, lat_max, lon_min, lon_max, grib, ds_t2m, ds_u10,
                   ds_v10, ds_precip, ds_cloud, ds_vis, ds_cape, ds_wind, ds_ts,
                   available_params, map_f, df>>

\* The field of the selected parameter at t_sel.
MapField ==
    CASE param = P_PRECIP -> pick_field_at_time(ds_precip, PRECIP_CANDIDATES, FALSE, TRUE)
      [] param = P_TS -> isel_time(ds_ts, "ts_flag")
      [] param = P_T2M -> pick_field_at_time(ds_t2m, T2M_CANDIDATES, TRUE, FALSE)
      [] param = P_WIND -> isel_time(ds_wind, "wind_spd_10m")
      [] param = P_CLOUD -> pick_field_at_time(ds_cloud, CLOUD_CANDIDATES, FALSE, FALSE)
      [] OTHER -> pick_field_at_time(ds_vis, VIS_CANDIDATES, FALSE, FALSE)

\* plot_raster: lons.min() / lats.min() raise ValueError on an empty axis.
PlotMap ==
    /\ pc = "plot_map"
    /\ UNCHANGED fetch
    /\ map_f' = MapField
    /\ pc' = IF map_f'.lat = <<>> \/ map_f'.lon = <<>> THEN "crashed" ELSE "plot_series"
    /\ UNCHANGED <<lat_min, lat_max, lon_min, lon_max, grib, ds_t2m, ds_u10,
                   ds_v10, ds_precip, ds_cloud, ds_vis, ds_cape, ds_wind, ds_ts,
                   available_params, param, t_sel, df>>

SeriesFrame ==
    CASE param = P_PRECIP -> sample_timeseries(ds_precip, PRECIP_CANDIDATES, FALSE, TRUE)
      [] param = P_TS -> DataFrame(ds_ts.valid_time, ds_ts.vars["ts_flag"])
      [] param = P_T2M -> sample_timeseries(ds_t2m, T2M_CANDIDATES, TRUE, FALSE)
      [] param = P_WIND -> DataFrame(ds_wind.valid_time, ds_wind.vars["wind_spd_10m"])
      [] param = P_CLOUD -> sample_timeseries(ds_cloud, CLOUD_CANDIDATES, FALSE, FALSE)
      [] OTHER -> sample_timeseries(ds_vis, VIS_CANDIDATES, FALSE, FALSE)

PlotSeries ==
    /\ pc = "plot_series"
    /\ UNCHANGED fetch
    /\ df' = SeriesFrame
    /\ pc' = "done"
    /\ UNCHANGED <<lat_min, lat_max, lon_min, lon_max, grib, ds_t2m, ds_u10,
                   ds_v10, ds_precip, ds_cloud, ds_vis, ds_cape, ds_wind, ds_ts,
                   available_params, param, t_sel, map_f>>

Next ==
    \/ LoadT2m \/ LoadU10 \/ LoadV10 \/ LoadPrecip \/ LoadCloud \/ LoadVis
    \/ LoadCape \/ ComputeWind \/ ComputeTsFlag \/ ListParams \/ Select
    \/ PlotMap \/ PlotSeries

----------------------------------------------------------------------------
(* find_latest_run *)

\* The run hours tried from the earliest of the day.
RUN_HOURS_ascending == <<"00", "06", "12", "18">>

RUN_HOURS == <<"18", "12", "06", "00">>

MAX_LOOKBACK_DAYS == 2

\* The (day, hh) pairs in the order of the two loops; day is the number of
\* days before the current UTC date.
Candidates ==
    [k \in 1..((MAX_LOOKBACK_DAYS + 1) * Len(RUN_HOURS)) |->
        [day |-> (k - 1) \div Len(RUN_HOURS),
         hh |-> RUN_HOURS[((k - 1) % Len(RUN_HOURS)) + 1]]]

Response(code) == [status_code |-> code]

\* What a HEAD request can do: answer 200, answer something else, or raise.
HeadAnswers == {Response(200), Response(404), Raised}

\* The trigger: find the latest run, or take the manual date and hour.
StartRun ==
    /\ pc = "start"
    /\ IF use_today
       THEN pc' = "find_run" /\ probes' = <<>> /\ UNCHANGED run
       ELSE pc' = "build_list" /\ run' = manual /\ UNCHANGED probes
    /\ UNCHANGED display
    /\ UNCHANGED <<use_today, manual, cache, status, gets, fi, calls>>

\* One pass of the inner loop: requests.head on the next candidate.
Probe ==
    /\ pc = "find_run"
    /\ Len(probes) < Len(Candidates)
    /\ \E r \in HeadAnswers :
          \E c \in {Candidates[Len(probes) + 1]} :
              /\ probes' = Append(probes, [day |-> c.day, hh |-> c.hh, answer |-> r])
              /\ IF r = Response(200)
                 THEN run' = c /\ pc' = "build_list"
                 ELSE UNCHANGED <<run, pc>>
    /\ UNCHANGED display
    /\ UNCHANGED <<use_today, manual, cache, status, gets, fi, calls>>

\* Both loops are exhausted: return None, None; the caller stops the run.
NoRun ==
    /\ pc = "find_run"
    /\ Len(probes) = Len(Candidates)
    /\ run' = None
    /\ pc' = "stopped"
    /\ UNCHANGED display
    /\ UNCHANGED <<use_today, manual, probes, cache, status, gets, fi, calls>>

FindNext == StartRun \/ Probe \/ NoRun

----------------------------------------------------------------------------
(* build_file_list, download_missing *)

\* The forecast hours of one run (0..120 by 3 in the program).
NumFiles == 3

\* The chunks of one response body.
Chunks == 2

\* How many times the trigger is pressed.
MaxCalls == 2

\* A file of the cache directory holding the first n chunks of its body.
File(n) == [size |-> n]

\* A GET that answered 200 and delivered n chunks: the whole body, or fewer
\* before iter_content raised.
Streamed(n) == [status_code |-> 200, received |-> n]

\* What a GET can do: raise before any answer, answer something else than
\* 200, or answer 200 and stream the body, whole or interrupted.
GetAnswers == {Raised, Response(404)} \cup {Streamed(n) : n \in 0..Chunks}

\* A check that takes no file as cached.
exists_never(f) == FALSE

\* path.exists() and path.stat().st_size > 0
exists_nonempty(f) == f # None /\ f.size > 0

\* urls, local_paths of the run; a new call of download_missing
BuildFileList ==
    /\ pc = "build_list"
    /\ status' = <<>>
    /\ gets' = <<>>
    /\ fi' = 1
    /\ pc' = "download"
    /\ UNCHANGED display
    /\ UNCHANGED <<use_today, manual, probes, run, cache, calls>>

\* One pass of the loop over zip(urls, paths).  open(path, "wb") creates or
\* empties the file once the answer is 200; every chunk received is written.
Download ==
    /\ pc = "download"
    /\ fi <= NumFiles
    /\ IF exists_nonempty(cache[fi])
       THEN /\ status' = Append(status, TRUE)
            /\ UNCHANGED <<cache, gets>>
       ELSE \E r \in GetAnswers :
               /\ gets' = Append(gets, [path |-> fi, answer |-> r])
               /\ IF r \in {Streamed(n) : n \in 0..Chunks}
                  THEN /\ cache' = [cache EXCEPT ![fi] = File(r.received)]
                       /\ status' = Append(status, r.received = Chunks)
                  ELSE /\ status' = Append(status, FALSE)
                       /\ UNCHANGED cache
    /\ fi' = fi + 1
    /\ UNCHANGED display
    /\ UNCHANGED <<use_today, manual, probes, run, calls, pc>>

\* return ok; if not any(status): st.stop()
DownloadDone ==
    /\ pc = "download"
    /\ fi > NumFiles
    /\ pc' = IF \E i \in 1..Len(status) : status[i] THEN "load_t2m" ELSE "stopped"
    /\ UNCHANGED display
    /\ UNCHANGED fetch

\* The trigger is pressed again: the script runs again from the top.
Rerun ==
    /\ pc \in {"stopped", "load_t2m"}
    /\ calls < MaxCalls
    /\ calls' = calls + 1
    /\ pc' = "start"
    /\ UNCHANGED display
    /\ UNCHANGED <<use_today, manual, probes, run, cache, status, gets, fi>>

FetchNext == StartRun \/ BuildFileList \/ Download \/ DownloadDone \/ Rerun

\* The state in which the loads start: the latest run was found at the first
\* probe and every file of it was downloaded whole.
Fetched ==
    /\ use_today = TRUE
    /\ manual = [day |-> 0, hh |-> RUN_HOURS[Len(RUN_HOURS)]]
    /\ probes = <<[day |-> Candidates[1].day, hh |-> Candidates[1].hh,
                   answer |-> Response(200)]>>
    /\ run = Candidates[1]
    /\ cache = [i \in 1..NumFiles |-> File(Chunks)]
    /\ status = [i \in 1..NumFiles |-> TRUE]
    /\ gets = [i \in 1..NumFiles |-> [path |-> i, answer |-> Streamed(Chunks)]]
    /\ fi = NumFiles + 1
    /\ calls = 1

----------------------------------------------------------------------------
(* The environment of a run: the sidebar inputs and the cached files *)

\* A dataset as concat_time returns it: n forecast steps on the grid lat x lon.
Dataset(lat, lon, n, data, accum) ==
    [lat |-> lat, lon |-> lon, row |-> lat, col |-> lon,
     valid_time |-> [i \in 1..n |-> i - 1], vars |-> data, accum |-> accum]

\* The same series of n steps for every name in names.
Uniform(names, x) == [v \in names |-> x]

Region(a, b, c, d) == [lat_min |-> a, lat_max |-> b, lon_min |-> c, lon_max |-> d]

\* LAT_MIN_DEFAULT, LAT_MAX_DEFAULT, LON_MIN_DEFAULT, LON_MAX_DEFAULT
DefaultRegion == Region(-110, 65, 950, 1410)

NoFiles == [k \in FilterKeys |-> None]

Start(region, files) ==
    /\ lat_min = region.lat_min
    /\ lat_max = region.lat_max
    /\ lon_min = region.lon_min
    /\ lon_max = region.lon_max
    /\ grib = files
    /\ pc = "load_t2m"
    /\ ds_t2m = None /\ ds_u10 = None /\ ds_v10 = None /\ ds_precip = None
    /\ ds_cloud = None /\ ds_vis = None /\ ds_cape = None
    /\ ds_wind = None /\ ds_ts = None
    /\ available_params = <<>>
    /\ param = NoVar
    /\ t_sel = 0
    /\ map_f = None
    /\ df = None
    /\ Fetched

(* Grids and regions: global 5-degree grids in both longitude conventions   *)
(* and a regional one; latitude stored north to south (as GFS) or south to  *)
(* north.                                                                   *)
LatNorthFirst == [i \in 1..7 |-> 150 - (i - 1) * 50]
LatSouthFirst == [i \in 1..7 |-> -150 + (i - 1) * 50]
Lon0To360 == [i \in 1..72 |-> (i - 1) * 50]
LonSigned == [i \in 1..72 |-> -1800 + (i - 1) * 50]
LonRegional == [i \in 1..12 |-> 900 + (i - 1) * 50]

LatAxes == {LatNorthFirst, LatSouthFirst}
LonAxes == {Lon0To360, LonSigned, LonRegional}

Regions ==
    {DefaultRegion,
     Region(-50, 50, -50, 50),         \* straddles the prime meridian
     Region(-110, 65, -300, -100),     \* west of the prime meridian
     Region(65, -110, 950, 1410),      \* lat_min > lat_max
     Region(-110, 65, 1900, 2400),     \* bounds given in the 0..360 convention
     Region(400, 600, 950, 1410)}      \* north of the grid

T2mSeries == <<30000, 29500>>
PrecipSeries == <<0, 20000>>

LoadFiles ==
    {[NoFiles EXCEPT !["heightAboveGround2"] =
         IF a = {} THEN None ELSE Dataset(la, lo, 2, Uniform(a, T2mSeries), FALSE)]
       : a \in SUBSET {"t2m", "2t", "t", "r2"}, la \in LatAxes, lo \in LonAxes}
    \cup
    {[NoFiles EXCEPT !["heightAboveGround2"] =
          Dataset(la, lo, 2, Uniform({"t2m"}, T2mSeries), FALSE),
                     !["surface"] =
          Dataset(la, lo, 2, Uniform(b, PrecipSeries), FALSE)]
       : b \in (SUBSET {"tp", "apcp", "prate", "total_precipitation"}) \ {{}},
         la \in LatAxes, lo \in LonAxes}

InitLoad == \E region \in Regions, files \in LoadFiles : Start(region, files)

SpecLoad == InitLoad /\ [][Next]_vars

----------------------------------------------------------------------------
(* Environments on a small regional grid inside the default region *)

SmallLat == <<50, 0, -50>>
SmallLon == <<1000, 1050, 1100>>

Small(n, data, accum) == Dataset(SmallLat, SmallLon, n, data, accum)

\* All sequences over vals of length 1..n.
RECURSIVE SeqsOfLen(_, _)
SeqsOfLen(vals, n) ==
    IF n = 0 THEN {<<>>}
    ELSE {Append(x, v) : x \in SeqsOfLen(vals, n - 1), v \in vals}

SeqsUpTo(vals, n) == UNION {SeqsOfLen(vals, k) : k \in 1..n}

(* Which parameters the files hold: every combination of present and      *)
(* missing source variables, each with one fixed two-step series.          *)
SeriesOf(name) ==
    CASE name = "t2m" -> <<30000, 29500>>
      [] name = "u10" -> <<0, -5>>
      [] name = "v10" -> <<-5, 0>>
      [] name = "tp" -> <<0, 20000>>
      [] name = "prate" -> <<1, 2>>
      [] name = "cape" -> <<600, 400>>
      [] OTHER -> <<50, 100>>

Holding(names) ==
    IF names = {} THEN None
    ELSE Small(2, [v \in names |-> SeriesOf(v)], FALSE)

ExtraCloudLayers == {"lowCloudLayer", "middleCloudLayer", "highCloudLayer",
                     "planetaryBoundaryLayer"}

RunFiles ==
    {[k \in FilterKeys |->
        CASE k = "heightAboveGround2" -> Holding(a)
          [] k = "heightAboveGround10" -> Holding(b)
          [] k = "surface" -> Holding(c \cup d)
          [] k = "atmosphereSingleLayer" -> Holding(e)
          [] OTHER -> IF k = layer THEN Holding({"tcdc"}) ELSE None]
       : a \in SUBSET {"t2m"}, b \in SUBSET {"u10", "v10"},
         c \in {{}, {"tp"}, {"prate"}}, d \in SUBSET {"vis", "cape"},
         e \in SUBSET {"tcc", "cape"},
         layer \in ExtraCloudLayers \cup {"surface"}}

Init == \E files \in RunFiles : Start(DefaultRegion, files)

Spec == Init /\ [][Next]_vars

(* Wind: u10 and v10 series on the axes and diagonals. *)
WindSteps == 2

WindSpeeds == {3, 5}

WindPairs ==
    {<<0, 0>>} \cup
    {<<a * m, b * m>> : m \in WindSpeeds,
                        <<a, b>> \in ({-1, 0, 1} \X {-1, 0, 1}) \ {<<0, 0>>}}

WindFiles ==
    {[NoFiles EXCEPT !["heightAboveGround10"] =
         Small(Len(w), [v \in {"u10", "v10"} |->
                           [i \in 1..Len(w) |-> IF v = "u10" THEN w[i][1] ELSE w[i][2]]],
               FALSE)]
       : w \in SeqsUpTo(WindPairs, WindSteps)}

InitWind == \E files \in WindFiles : Start(DefaultRegion, files)

SpecWind == InitWind /\ [][Next]_vars

(* Temperature: series in Kelvin and in Celsius, under each alias. *)
TempSteps == 2

TempValues == {2500, 10000, 10001, 27315, 30000}

TempFiles ==
    {[NoFiles EXCEPT !["heightAboveGround2"] = Small(Len(x), Uniform({name}, x), FALSE)]
       : x \in SeqsUpTo(TempValues, TempSteps), name \in Range(T2M_CANDIDATES)}

InitTemp == \E files \in TempFiles : Start(DefaultRegion, files)

SpecTemp == InitTemp /\ [][Next]_vars

(* Precipitation and CAPE: cumulative series under tp, apcp and             *)
(* total_precipitation, rate series under prate; CAPE, when the files hold  *)
(* it, has a value for every step.                                          *)
PrecipSteps == 4

CapeSteps == 3

CumulativeValues == {0, 5000, 20000, 50000}

RateValues == {0, 1}

CapeValues == {400, 500, 600}

NonDecreasing(x) == \A i \in 1..(Len(x) - 1) : x[i] <= x[i + 1]

PrecipData ==
    {[name |-> nm, accum |-> ac, series |-> x]
       : nm \in {"tp", "apcp"}, ac \in {FALSE},
         x \in {y \in SeqsUpTo(CumulativeValues, PrecipSteps) : NonDecreasing(y)}}
    \cup
    {[name |-> "total_precipitation", accum |-> ac, series |-> x]
       : ac \in BOOLEAN,
         x \in {y \in SeqsUpTo(CumulativeValues, PrecipSteps) : NonDecreasing(y)}}
    \cup
    {[name |-> "prate", accum |-> ac, series |-> x]
       : ac \in BOOLEAN, x \in SeqsUpTo(RateValues, PrecipSteps)}

PrecipFiles ==
    {[NoFiles EXCEPT !["surface"] =
          Small(Len(p.series), Uniform({p.name}, p.series), p.accum),
                     !["atmosphereSingleLayer"] = None]
       : p \in PrecipData}
    \cup
    {[NoFiles EXCEPT !["surface"] =
          Small(Len(p.series), Uniform({p.name}, p.series), p.accum),
                     !["atmosphereSingleLayer"] =
          Small(Len(c), Uniform({"cape"}, c), FALSE)]
       : p \in {q \in PrecipData : Len(q.series) <= CapeSteps},
         c \in SeqsUpTo(CapeValues, CapeSteps)}

InitPrecip == \E files \in PrecipFiles : Start(DefaultRegion, files)

SpecPrecip == InitPrecip /\ [][Next]_vars

(* Longitude axes: every ascending axis of up to NormLen columns over     *)
(* longitudes of both conventions, 180 and 360 included; the region takes  *)
(* every signed longitude.                                                *)
NormLen == 3

NormLons == {-1800, -900, 0, 900, 1800, 1850, 2700, 3550, 3600}

Ascending(s) == \A i \in 1..(Len(s) - 1) : s[i] < s[i + 1]

NormAxes == {lo \in SeqsUpTo(NormLons, NormLen) : Ascending(lo)}

AllLongitudes == Region(-110, 65, -1800, 1800)

NormFiles ==
    {[NoFiles EXCEPT !["heightAboveGround2"] =
          Dataset(SmallLat, lo, 2, Uniform({"t2m"}, T2mSeries), FALSE)]
       : lo \in NormAxes}

InitNorm == \E files \in NormFiles : Start(AllLongitudes, files)

SpecNorm == InitNorm /\ [][Next]_vars

(* The trigger is pressed for the first time: nothing is loaded, the cache  *)
(* directory is empty.                                                      *)
\* manual_date = today's UTC date, manual_hour = "00": the widgets' defaults
DefaultManual == [day |-> 0, hh |-> "00"]

ManualRuns == {[day |-> d, hh |-> RUN_HOURS[h]] : d \in 0..MAX_LOOKBACK_DAYS,
                                                 h \in 1..Len(RUN_HOURS)}

Pressed(auto, m) ==
    /\ lat_min = DefaultRegion.lat_min
    /\ lat_max = DefaultRegion.lat_max
    /\ lon_min = DefaultRegion.lon_min
    /\ lon_max = DefaultRegion.lon_max
    /\ grib = NoFiles
    /\ pc = "start"
    /\ ds_t2m = None /\ ds_u10 = None /\ ds_v10 = None /\ ds_precip = None
    /\ ds_cloud = None /\ ds_vis = None /\ ds_cape = None
    /\ ds_wind = None /\ ds_ts = None
    /\ available_params = <<>>
    /\ param = NoVar
    /\ t_sel = 0
    /\ map_f = None
    /\ df = None
    /\ use_today = auto
    /\ manual = m
    /\ probes = <<>>
    /\ run = None
    /\ cache = [i \in 1..NumFiles |-> None]
    /\ status = <<>>
    /\ gets = <<>>
    /\ fi = 1
    /\ calls = 1

InitFind ==
    \E auto \in BOOLEAN, m \in ManualRuns :
        (auto => m = DefaultManual) /\ Pressed(auto, m)

SpecFind == InitFind /\ [][FindNext]_vars

InitFetch == Pressed(FALSE, DefaultManual)

SpecFetch == InitFetch /\ [][FetchNext]_vars

----------------------------------------------------------------------------
(* Properties of load_parameter, checked under SpecLoad *)

Steps == <<"load_t2m", "load_u10", "load_v10", "load_precip", "load_cloud",
           "load_vis", "load_cape", "compute_wind", "compute_ts", "list_params",
           "select", "plot_map", "plot_series", "done">>

\* The run has executed the step named s.
After(s) == \A i \in 1..Len(Steps) :
                pc = Steps[i] => \E j \in 1..(i - 1) : Steps[j] = s

Present(raw) == IF raw = None THEN {} ELSE DOMAIN raw.vars

\* ds is the result the claim asks of resolving candidates against raw.
Resolved(raw, candidates, ds) ==
    IF \A i \in 1..Len(candidates) : candidates[i] \notin Present(raw)
    THEN ds = None
    ELSE /\ ds # None
         /\ \E i \in 1..Len(candidates) :
               /\ candidates[i] \in Present(raw)
               /\ \A j \in 1..(i - 1) : candidates[j] \notin Present(raw)
               /\ DOMAIN ds.vars = {candidates[i]}

\* C1: every load that resolves its candidate list against one dataset yields
\* the earliest candidate, in list order, that is a variable of the dataset,
\* and yields None exactly when no candidate is; the run goes on either way.
C1_FirstPresentCandidate ==
    /\ After("load_t2m") => Resolved(grib["heightAboveGround2"], T2M_CANDIDATES, ds_t2m)
    /\ After("load_u10") => Resolved(grib["heightAboveGround10"], U10_CANDIDATES, ds_u10)
    /\ After("load_v10") => Resolved(grib["heightAboveGround10"], V10_CANDIDATES, ds_v10)
    /\ After("load_precip") => Resolved(grib["surface"], PRECIP_CANDIDATES, ds_precip)
    /\ After("load_vis") => Resolved(grib["surface"], VIS_CANDIDATES, ds_vis)

C1_Witness ==
    /\ After("load_precip")
    /\ Present(grib["heightAboveGround2"]) = {"2t", "t", "r2"}
    /\ ds_t2m # None /\ DOMAIN ds_t2m.vars = {"2t"}
    /\ ds_u10 = None /\ ds_precip = None

\* C3: when the files' longitude axis is in the 0..360 convention and the
\* signed region bounds straddle the prime meridian, the loaded parameter
\* holds exactly the columns that the files have at longitudes from
\* 360 + lon_min up and from 0 to lon_max, western columns first.
C3_StraddlingRegionSelected ==
    LET raw == grib["heightAboveGround2"]
    IN  (/\ After("load_t2m")
         /\ ds_t2m # None
         /\ SeqMax(raw.lon) > 1800
         /\ \A i \in 1..Len(raw.lon) : 0 <= raw.lon[i] /\ raw.lon[i] < 3600
         /\ lon_min < 0 /\ lon_max >= 0 /\ lon_min >= -1800 /\ lon_max < 1800)
        => /\ Range(ds_t2m.col) =
                  {c \in Range(raw.lon) : c >= 3600 + lon_min \/ c <= lon_max}
           /\ \A i \in 1..Len(ds_t2m.col) :
                  ds_t2m.lon[i] = IF ds_t2m.col[i] >= 1800 THEN ds_t2m.col[i] - 3600
                                                           ELSE ds_t2m.col[i]
           /\ \A i \in 1..(Len(ds_t2m.lon) - 1) : ds_t2m.lon[i] < ds_t2m.lon[i + 1]

C3_Witness ==
    /\ After("load_t2m")
    /\ ds_t2m # None
    /\ grib["heightAboveGround2"].lon = Lon0To360
    /\ lon_min = -50 /\ lon_max = 50
    /\ ds_t2m.col = <<3550, 0, 50>>

\* C9 (as claimed): whichever way the latitude axis is stored, the loaded
\* parameter holds exactly the rows whose latitude is in [lat_min, lat_max].
C9_RowsInLatitudeBounds ==
    LET raw == grib["heightAboveGround2"]
    IN  (After("load_t2m") /\ ds_t2m # None)
        => Range(ds_t2m.row) = {r \in Range(raw.lat) : lat_min <= r /\ r <= lat_max}

\* C10 (as claimed): a parameter whose regional subset holds no grid cell is
\* not returned as loaded and is not offered for display.
C10_EmptySubsetNotLoaded ==
    /\ After("load_t2m") /\ ds_t2m # None
           => ds_t2m.lat # <<>> /\ ds_t2m.lon # <<>>
    /\ \A i \in 1..Len(available_params) :
           available_params[i] = P_T2M => ds_t2m.lat # <<>> /\ ds_t2m.lon # <<>>

----------------------------------------------------------------------------
(* Properties of the run, checked under Spec *)

Offered(name) == name \in Range(available_params)

\* C2 (as claimed): whatever subset of the source parameters fails to load,
\* every parameter that did load is offered for display, wind is None and
\* not offered when a component is missing, and the run ends early only
\* when no parameter at all loaded.
C2_LoadedParametersOffered ==
    /\ After("list_params") =>
          /\ ds_t2m # None => Offered(P_T2M)
          /\ ds_precip # None => Offered(P_PRECIP)
          /\ ds_cloud # None => Offered(P_CLOUD)
          /\ ds_vis # None => Offered(P_VIS)
          /\ (ds_u10 = None \/ ds_v10 = None) => ds_wind = None /\ ~Offered(P_WIND)
    /\ pc \in {"stopped", "crashed"} =>
          /\ ds_t2m = None /\ ds_u10 = None /\ ds_v10 = None /\ ds_precip = None
          /\ ds_cloud = None /\ ds_vis = None /\ ds_cape = None

\* C7 (as claimed): when CAPE or precipitation is missing, the thunderstorm
\* flag is still there, zero at every time step.
C7_AllZeroFlagEmitted ==
    (After("compute_ts") /\ (ds_cape = None \/ ds_precip = None))
    => /\ ds_ts # None
       /\ \A i \in 1..Len(ds_ts.vars["ts_flag"]) : ds_ts.vars["ts_flag"][i] = 0

\* C7 (amended): when CAPE or precipitation is missing, compute_ts_flag
\* returns None: there is no flag field and the thunderstorm flag is not
\* offered for display.
C7_FlagOmitted ==
    (After("compute_ts") /\ (ds_cape = None \/ ds_precip = None))
    => ds_ts = None /\ ~Offered(P_TS)

C7_Witness ==
    /\ pc = "select"
    /\ ds_cape = None /\ ds_precip # None /\ ds_t2m # None
    /\ ds_ts = None
    /\ available_params = <<P_PRECIP, P_T2M>>

----------------------------------------------------------------------------
(* Properties of compute_wind, checked under SpecWind *)

\* The compass bearing the wind (u, v) blows from, for a wind along an axis
\* or a diagonal.
BearingFrom(u, v) ==
    CASE u = 0 /\ v < 0 -> 0
      [] u < 0 /\ v < 0 -> 45
      [] u < 0 /\ v = 0 -> 90
      [] u < 0 /\ v > 0 -> 135
      [] u = 0 /\ v > 0 -> 180
      [] u > 0 /\ v > 0 -> 225
      [] u > 0 /\ v = 0 -> 270
      [] u > 0 /\ v < 0 -> 315
      [] OTHER -> 270

\* C5: at every time step the direction is in [0, 360) and is the bearing
\* the wind comes from (u=0,v<0: 0; u<0,v=0: 90; u=0,v>0: 180; u>0,v=0: 270),
\* and the speed is sqrt(u^2 + v^2), here to a hundredth (u=0, v=-5: 5.00).
C5_WindSpeedAndBearing ==
    (After("compute_wind") /\ ds_u10 # None /\ ds_v10 # None)
    => /\ ds_wind # None
       /\ Len(ds_wind.vars["wind_dir_10m"]) = Len(Field(ds_u10))
       /\ Len(ds_wind.vars["wind_spd_10m"]) = Len(Field(ds_u10))
       /\ \A i \in 1..Len(Field(ds_u10)) :
             LET u == Field(ds_u10)[i]
                 v == Field(ds_v10)[i]
                 d == ds_wind.vars["wind_dir_10m"][i]
                 w == ds_wind.vars["wind_spd_10m"][i]
             IN  /\ 0 <= d /\ d < 360
                 /\ d = BearingFrom(u, v)
                 /\ w >= 0
                 /\ w * w <= (u * u + v * v) * 10000
                 /\ (w + 1) * (w + 1) > (u * u + v * v) * 10000
                 /\ (u = 0 /\ v = -5) => w = 500

C5_Witness ==
    /\ pc = "done"
    /\ ds_u10 # None /\ ds_v10 # None /\ ds_wind # None
    /\ Field(ds_u10) = <<0, -5>> /\ Field(ds_v10) = <<-5, 0>>
    /\ ds_wind.vars["wind_dir_10m"] = <<0, 90>>
    /\ ds_wind.vars["wind_spd_10m"] = <<500, 500>>

----------------------------------------------------------------------------
(* Properties of the temperature display, checked under SpecTemp *)

Shown == pc \in {"plot_series", "done"} /\ param = P_T2M

RawAtSel(ds) == Field(ds)[NearestIdx(ds.valid_time, t_sel)]

\* C8 (as claimed): a raw temperature above 100 is taken as Kelvin and has
\* 273.15 subtracted, any other is taken as Celsius and shown unchanged, in
\* the map field and in the time series alike.
C8_KelvinOnlyAboveThreshold ==
    /\ Shown =>
          map_f.value = IF RawAtSel(ds_t2m) > 10000 THEN RawAtSel(ds_t2m) - 27315
                                                    ELSE RawAtSel(ds_t2m)
    /\ (pc = "done" /\ param = P_T2M) =>
          \A i \in 1..Len(df) :
              df[i].value = IF Field(ds_t2m)[i] > 10000 THEN Field(ds_t2m)[i] - 27315
                                                        ELSE Field(ds_t2m)[i]

\* C8 (amended): every raw temperature is taken as Kelvin: 273.15 is
\* subtracted from it whatever its size, in the map field and at every step
\* of the time series.
C8_AlwaysKelvin ==
    /\ Shown => map_f.value = RawAtSel(ds_t2m) - 27315
    /\ (pc = "done" /\ param = P_T2M) =>
          /\ Len(df) = Len(Field(ds_t2m))
          /\ \A i \in 1..Len(df) :
                /\ df[i].value = Field(ds_t2m)[i] - 27315
                /\ df[i].time = ds_t2m.valid_time[i]

C8_Witness ==
    /\ pc = "done" /\ param = P_T2M
    /\ Field(ds_t2m) = <<30000, 2500>>
    /\ t_sel = 1
    /\ map_f.value = -24815
    /\ df = <<[time |-> 0, value |-> 2685], [time |-> 1, value |-> -24815]>>

----------------------------------------------------------------------------
(* Properties of the precipitation display and of the thunderstorm flag,   *)
(* checked under SpecPrecip                                                *)

IsRate(ds) == VarName(ds) = "prate"

\* The precipitation of the bucket that ends at step i of ds: a rate times
\* the 10800 s of a bucket, a cumulative total minus the total one step
\* before (undefined at the first step).
PerBucket(ds, i) ==
    IF IsRate(ds) THEN Field(ds)[i] * 10800
    ELSE IF i = 1 THEN NaN ELSE Field(ds)[i] - Field(ds)[i - 1]

\* C4 (as claimed): for a cumulative series over n steps the map field at
\* step i and row i of the time series hold cumulative[i] - cumulative[i-1]
\* labelled with the time of step i; the first step is undefined or zero,
\* and the time series has a row for each of the n steps.
C4_PerBucketAtEveryStep ==
    (param = P_PRECIP /\ ~IsRate(ds_precip))
    => /\ pc \in {"plot_series", "done"} =>
             LET i == NearestIdx(ds_precip.valid_time, t_sel)
             IN  IF i = 1 THEN map_f.value \in {NaN, 0}
                 ELSE map_f.value = PerBucket(ds_precip, i)
       /\ pc = "done" =>
             /\ Len(df) = Len(ds_precip.valid_time)
             /\ \A i \in 1..Len(df) :
                   /\ df[i].time = ds_precip.valid_time[i]
                   /\ IF i = 1 THEN df[i].value \in {NaN, 0}
                      ELSE df[i].value = PerBucket(ds_precip, i)

\* C6 (as claimed): when CAPE and precipitation both loaded, the flag has a
\* value at every time step of CAPE, and it is 1 exactly when CAPE >= 500
\* and the precipitation of the bucket ending at that step is >= 1 mm,
\* whichever precipitation alias was resolved.
C6_FlagIsCapeAndBucketRain ==
    (After("compute_ts") /\ ds_cape # None /\ ds_precip # None
        /\ ds_cape.valid_time = ds_precip.valid_time)
    => /\ pc # "crashed"
       /\ ds_ts # None
       /\ ds_ts.valid_time = ds_cape.valid_time
       /\ \A i \in 1..Len(ds_cape.valid_time) :
             ds_ts.vars["ts_flag"][i] =
                 IF Field(ds_cape)[i] >= 500 /\ PerBucket(ds_precip, i) >= 10000
                 THEN 1 ELSE 0

----------------------------------------------------------------------------
(* Properties of norm_lon_to_180, checked under SpecNorm *)

Signed(lon) == \A i \in 1..Len(lon) : -1800 <= lon[i] /\ lon[i] <= 1800

\* C11: norm_lon_to_180 returns a dataset with signed ascending longitudes
\* unchanged, and for every dataset its output is a fixed point: the output's
\* longitudes do not exceed 180, so a second call neither remaps nor reorders.
C11_NormIdempotent ==
    \A k \in FilterKeys :
        grib[k] # None =>
            \E n \in {norm_lon_to_180(grib[k])} :
                /\ SeqMax(n.lon) <= 1800
                /\ norm_lon_to_180(n) = n
                /\ (Signed(grib[k].lon) /\ Ascending(grib[k].lon)) => n = grib[k]

\* A run that loaded temperature from files whose 0..360 axis was remapped and
\* put into a new order by the normalisation.
C11_Witness ==
    /\ pc = "done"
    /\ ds_t2m # None
    /\ grib["heightAboveGround2"] # None
    /\ SeqMax(grib["heightAboveGround2"].lon) > 1800
    /\ ds_t2m.col # grib["heightAboveGround2"].col
    /\ Len(ds_t2m.col) = Len(grib["heightAboveGround2"].col)

----------------------------------------------------------------------------
(* Properties of find_latest_run, checked under SpecFind *)

\* The k-th candidate in the order the claim fixes: day offsets 0, 1, 2 and,
\* within a day, the hours 18, 12, 06, 00.
InOrder(k) ==
    [day |-> CASE k <= 4 -> 0 [] k <= 8 -> 1 [] OTHER -> 2,
     hh |-> CASE k % 4 = 1 -> "18" [] k % 4 = 2 -> "12" [] k % 4 = 3 -> "06"
              [] OTHER -> "00"]

Answered200(k) == probes[k].answer = Response(200)

\* C12: the probes follow the fixed order, none is issued after one that
\* answered 200, a probe that raised or answered otherwise is passed over, at
\* most 12 are issued and the search then ends; the run returned is the one
\* of the first probe that answered 200, and None exactly when none did.
C12_FirstAvailableRun ==
    use_today =>
        /\ Len(probes) <= 12
        /\ \A k \in 1..Len(probes) :
              /\ probes[k].day = InOrder(k).day
              /\ probes[k].hh = InOrder(k).hh
              /\ Answered200(k) => k = Len(probes)
        /\ pc = "find_run" =>
              /\ \A k \in 1..Len(probes) : ~Answered200(k)
              /\ ENABLED (Probe \/ NoRun)
              /\ Len(probes) = 12 => ~ENABLED Probe
        /\ pc = "build_list" =>
              /\ probes # <<>>
              /\ Answered200(Len(probes))
              /\ run = InOrder(Len(probes))
        /\ pc = "stopped" =>
              /\ run = None
              /\ Len(probes) = 12
              /\ \A k \in 1..12 : ~Answered200(k)

\* The search passed over a probe that raised and one that answered 404 on
\* the current day and returned the 18Z run of the day before.
C12_Witness ==
    /\ use_today
    /\ pc = "build_list"
    /\ Len(probes) = 5
    /\ run = [day |-> 1, hh |-> "18"]
    /\ probes[1].answer = Raised
    /\ probes[2].answer = Response(404)

----------------------------------------------------------------------------
(* Properties of download_missing, checked under SpecFetch *)

Failed(r) == r = Raised \/ (r.status_code # 200) \/ (r.received < Chunks)

\* C13: every pass of the loop adds one boolean at the position of its file
\* and goes on to the next file, whatever the answer was; a file that exists
\* with size > 0 yields True, is not requested and is not written; a GET that
\* raised or did not answer 200 yields False and touches no file; the call
\* returns one boolean per file.
C13_OnePerFileCachedUntouched ==
    [][pc = "download" =>
          IF fi <= NumFiles
          THEN /\ Len(status) = fi - 1
               /\ Len(status') = fi
               /\ SubSeq(status', 1, fi - 1) = status
               /\ fi' = fi + 1
               /\ pc' = "download"
               /\ \A j \in 1..NumFiles : j # fi => cache'[j] = cache[j]
               /\ IF cache[fi] # None /\ cache[fi].size > 0
                  THEN status'[fi] = TRUE /\ gets' = gets /\ cache' = cache
                  ELSE /\ Len(gets') = Len(gets) + 1
                       /\ gets'[Len(gets')].path = fi
                       /\ Failed(gets'[Len(gets')].answer) => status'[fi] = FALSE
                       /\ gets'[Len(gets')].answer \in {Raised, Response(404)}
                              => cache' = cache
          ELSE Len(status) = NumFiles /\ status' = status
      ]_vars

\* The second call: the first file was in the cache and was not requested,
\* the second failed with 404 and the third was still downloaded.
C13_Witness ==
    /\ calls = 2
    /\ pc = "load_t2m"
    /\ status = <<TRUE, FALSE, TRUE>>
    /\ Len(gets) = 2
    /\ gets[1] = [path |-> 2, answer |-> Response(404)]
    /\ gets[2] = [path |-> 3, answer |-> Streamed(Chunks)]

\* C14: a file is reported available only if the cache holds its whole body,
\* written by a download that ran to its end.
C14_AvailableOnlyIfWhole ==
    \A j \in 1..Len(status) : status[j] => cache[j] = File(Chunks)

====
